---------------------------- MODULE Spec2Model ----------------------------
(***************************************************************************)
(* A model of wordle_bot.py: the feedback function test, the candidate     *)
(* filter winnow, the three scoring heuristics, the guess selector         *)
(* guestimate and the game loop play.                                      *)
(*                                                                         *)
(* A word is a function 1..WordLen -> letter (Python's index i is i+1      *)
(* here); a word list is a sequence of words; a result is a function       *)
(* 1..WordLen -> 0..2 with the code's encoding 0 = black, 1 = yellow,      *)
(* 2 = green.                                                              *)
(***************************************************************************)
EXTENDS Integers, Sequences, FiniteSets, TLC

VARIABLES
    pc,          \* position of the running function
    dictionary,  \* the word list set_words() returned
    wordle,      \* play's wordle argument (the solution in self-play)
    interactive, \* play's interactive argument
    word_list,   \* play's / winnow's word_list
    prev_list,   \* the word_list the last winnow call was given
    guess,       \* play's guess (None before the first round)
    guess_func,  \* the heuristic guestimate used for that guess
    result,      \* play's result
    guesses,     \* play's guesses
    emojis       \* play's emojis

vars == <<pc, dictionary, wordle, interactive, word_list, prev_list,
          guess, guess_func, result, guesses, emojis>>

None == "None"

\* result = [0, 0, 0, 0, 0]: every word and every result has five columns.
WordLen == 5
Cols == 1..WordLen

Black  == 0
Yellow == 1
Green  == 2

Results == [Cols -> {Black, Yellow, Green}]

-----------------------------------------------------------------------------
(* The letters the solutions and guesses of SpecTest are made of.         *)

Alphabet == <<"a", "b", "c", "d", "e">>
NumLetters == 3
Letters == {Alphabet[i] : i \in 1..NumLetters}
Words == [Cols -> Letters]

-----------------------------------------------------------------------------
(* mask(word, locked_col): the word with its locked columns blanked.       *)
mask(word, locked_col) ==
    [i \in Cols |-> IF i \in locked_col THEN " " ELSE word[i]]

(* test(wordle, guess): the first pass marks the greens and masks their    *)
(* columns of the solution; the second pass marks yellow every other       *)
(* column whose letter occurs in the masked solution.                      *)
test(w, g) ==
    LET masking == {i \in Cols : g[i] = w[i]}
        masked  == mask(w, masking)
    IN  [i \in Cols |->
            IF i \in masking THEN Green
            ELSE IF \E j \in Cols : masked[j] = g[i] THEN Yellow
            ELSE Black]

-----------------------------------------------------------------------------
(* winnow(word_list, guess, result).                                       *)

\* Mutant of prohibited: a letter that is also yellow in the guess is not
\* prohibited.
prohibited_unless_yellow(g, r) ==
    {g[i] : i \in {j \in Cols : r[j] = Black}}
        \ {g[i] : i \in {j \in Cols : r[j] = Yellow}}

\* prohibited = [guess[i] for i,r in enumerate(result) if r==0]
prohibited(g, r) == {g[i] : i \in {j \in Cols : r[j] = Black}}

\* Mutant of excluded: a yellow column does not exclude its own letter.
excluded_black_only(g, r, i) == prohibited(g, r)

\* The character class the pattern puts in column i when r[i] is not green:
\* [^ + (guess[i] if yellow) + prohibited + ]
excluded(g, r, i) ==
    (IF r[i] = Yellow THEN {g[i]} ELSE {}) \cup prohibited(g, r)

\* pattern.match(word) for the pattern built from (guess, result).
pattern_match(word, g, r) ==
    \A i \in Cols :
        IF r[i] = Green THEN word[i] = g[i]
        ELSE word[i] \notin excluded(g, r, i)

\* y in [w for i,w in enumerate(word) if result[i] != 2]
has_outside_green(word, y, r) ==
    \E i \in Cols : r[i] # Green /\ word[i] = y

\* Mutant of sift: the final passes are skipped.
sift_none(list, g, r, i) == list

\* The final passes: one filter per yellow column, in column order.
RECURSIVE sift(_, _, _, _)
sift(list, g, r, i) ==
    IF i > WordLen THEN list
    ELSE sift(IF r[i] = Yellow
              THEN SelectSeq(list, LAMBDA word : has_outside_green(word, g[i], r))
              ELSE list,
              g, r, i + 1)

\* Mutant of winnow: the first pass deletes from the list it is iterating
\* over (for word in word_list: if not pattern.match(word):
\* word_list.remove(word)), so the word after a deleted one is never looked at.
RECURSIVE remove_while_iterating(_, _, _, _)
remove_while_iterating(list, g, r, k) ==
    IF k > Len(list) THEN list
    ELSE IF pattern_match(list[k], g, r)
         THEN remove_while_iterating(list, g, r, k + 1)
         ELSE remove_while_iterating(
                SubSeq(list, 1, k - 1) \o SubSeq(list, k + 1, Len(list)),
                g, r, k + 1)

winnow_in_place(list, g, r) ==
    sift(remove_while_iterating(list, g, r, 1), g, r, 1)

\* Mutant of winnow: the kept words are collected in reverse
\* (kept.insert(0, word)).
winnow_reversed(list, g, r) ==
    LET kept == sift(SelectSeq(list, LAMBDA word : pattern_match(word, g, r)),
                     g, r, 1)
    IN  [k \in 1..Len(kept) |-> kept[Len(kept) + 1 - k]]

winnow(list, g, r) ==
    sift(SelectSeq(list, LAMBDA word : pattern_match(word, g, r)), g, r, 1)

-----------------------------------------------------------------------------
(* The scoring heuristics.                                                 *)

RangeOf(list) == {list[k] : k \in 1..Len(list)}

\* set(word)
LetterSet(word) == {word[i] : i \in Cols}

RECURSIVE SumOver(_, _)
SumOver(f, S) ==
    IF S = {} THEN 0
    ELSE LET x == CHOOSE y \in S : TRUE IN f[x] + SumOver(f, S \ {x})

\* letter_counts(word_list)[0]: l_counter[l], the occurrences of l in all
\* columns of all words of the list.
l_counter(list) ==
    [l \in UNION {LetterSet(list[k]) : k \in 1..Len(list)} |->
        SumOver([k \in 1..Len(list) |->
                    Cardinality({i \in Cols : list[k][i] = l})],
                1..Len(list))]

\* letter_counts(word_list)[1]: l_counter_by_col[i][l], the number of words
\* of the list with l in column i.
l_counter_by_col(list) ==
    [i \in Cols |->
        [l \in {list[k][i] : k \in 1..Len(list)} |->
            Cardinality({k \in 1..Len(list) : list[k][i] = l})]]

\* value_by_common_letters(word_list): sum(lp[l] for l in set(word)) with
\* lp[l] = lc[l] / ltotal. Every value has the denominator ltotal, and the
\* model keeps the numerator.
value_by_common_letters(list) ==
    LET lc == l_counter(list)
    IN  [word \in RangeOf(list) |-> SumOver(lc, LetterSet(word))]

\* value_by_columns(word_list) with locked_cols = []: the sum over the
\* columns of lcbc[n][word[n]] / len(word_list); again the numerator.
value_by_columns(list) ==
    LET lcbc == l_counter_by_col(list)
    IN  [word \in RangeOf(list) |->
            SumOver([n \in Cols |-> lcbc[n][word[n]]], Cols)]

\* The words most_common(1)[0][0] can return for a table of float values.
\* A word whose exact value is below the maximum is below it by at least
\* 1/ltotal and never wins. Words of equal exact value are sums of different
\* floats (in set(word)'s hash order) and can round apart, so any of them
\* can hold the largest float: [ddddd, aaaaa, bbbcc] yields bbbcc, since
\* 3/15 + 2/15 rounds above 5/15.
most_common(word_values) ==
    {word \in DOMAIN word_values :
        \A other \in DOMAIN word_values :
            word_values[other] <= word_values[word]}

\* random_value(word_list).most_common(1)[0][0]: sample() ranks the words
\* by a random permutation, so the top rank can fall on any word.
random_value_top(list) == RangeOf(list)

guess_funcs == {"value_by_common_letters", "value_by_columns", "random_value"}

\* The guesses guess_func(word_list).most_common(1)[0][0] can return.
top_words(func, list) ==
    CASE func = "value_by_common_letters" ->
            most_common(value_by_common_letters(list))
      [] func = "value_by_columns" ->
            most_common(value_by_columns(list))
      [] func = "random_value" -> random_value_top(list)

\* Mutant of guestimate_funcs: every round draws among the three.
guestimate_funcs_blind(round, previous) == guess_funcs

\* guestimate(word_list, round, previous): the heuristics it can draw. The
\* blind branch, not (round or previous), samples one of the three; every
\* other call scores by common letters.
guestimate_funcs(round, previous) ==
    IF ~(round # 0 \/ previous # None)
    THEN guess_funcs
    ELSE {"value_by_common_letters"}

\* guestimate(word_list, round, previous): the guesses it can return. On an
\* empty list most_common(1) is [] and its [0] raises IndexError, which is
\* the empty set here.
guestimate(list, round, previous) ==
    UNION {top_words(f, list) : f \in guestimate_funcs(round, previous)}

-----------------------------------------------------------------------------
(* emojinate(result): one emoji per column.                                *)
emojinate(r) ==
    [i \in Cols |->
        <<":black_large_square:", ":yellow_square:", ":green_square:">>[r[i] + 1]]

-----------------------------------------------------------------------------
(* The dictionary file set_words() reads, one word per line.               *)
WordFile == <<
    <<"c","r","a","n","e">>, <<"s","l","a","t","e">>, <<"a","u","d","i","o">>,
    <<"l","i","g","h","t">>, <<"m","i","g","h","t">>, <<"n","i","g","h","t">>,
    <<"h","i","g","h","t">>, <<"t","i","g","h","t">>, <<"h","o","u","s","e">>,
    <<"t","h","e","i","r">>, <<"w","o","u","l","d">>, <<"p","l","a","n","t">>,
    <<"g","r","e","e","n">>, <<"t","r","a","c","e">>, <<"a","d","i","e","u">>,
    <<"s","t","a","r","e">>, <<"a","r","i","s","e">>, <<"m","o","u","s","e">>,
    <<"a","b","o","u","t">>, <<"o","t","h","e","r">>, <<"w","h","i","c","h">>,
    <<"t","h","e","r","e">>, <<"c","o","u","l","d">>, <<"w","o","r","l","d">>,
    <<"w","a","t","e","r">>, <<"a","f","t","e","r">>, <<"w","h","e","r","e">>,
    <<"t","h","i","n","k">>, <<"t","h","r","e","e">>, <<"p","l","a","c","e">>,
    <<"g","r","e","a","t">>, <<"s","m","a","l","l">>, <<"s","o","u","n","d">>,
    <<"a","g","a","i","n">>, <<"s","t","i","l","l">>, <<"e","v","e","r","y">>,
    <<"f","o","u","n","d">>, <<"u","n","d","e","r">>, <<"n","e","v","e","r">>,
    <<"p","o","i","n","t">>, <<"y","o","u","n","g">>, <<"e","a","r","t","h">>,
    <<"s","t","o","r","y">>, <<"a","l","o","n","g">>, <<"w","h","i","l","e">>,
    <<"b","r","i","n","g">>, <<"b","l","a","c","k">>, <<"w","h","i","t","e">>,
    <<"b","r","o","w","n">>, <<"c","l","o","c","k">>, <<"r","i","g","h","t">>,
    <<"d","r","e","a","m">>, <<"f","l","u","t","e">>
>>

\* The model loads a prefix of the file: DictSize words when the solution is
\* known, SmallSize words when the hints are typed in (every round then has
\* all of Results to choose from).
SmallSize == 8
DictSize == 52
Dictionary(inter) == SubSeq(WordFile, 1, IF inter THEN SmallSize ELSE DictSize)

\* play's default: def play(wordle='xxxxx', ...)
DefaultWordle == <<"x","x","x","x","x">>

\* share(args.solution, ...) passes any five-letter solution, a word of the
\* dictionary or not (wight is not in the file); interactive() leaves the
\* default.
Wordles(inter) ==
    IF inter THEN {DefaultWordle}
    ELSE RangeOf(Dictionary(FALSE))
            \cup {DefaultWordle, <<"w","i","g","h","t">>}

-----------------------------------------------------------------------------
(* play(wordle, verbose, interactive).                                     *)

\* while len(guesses) < 6 and sum(result) < 10
MaxGuesses == 6
AllGreenSum == 10
\* Mutants of loop_condition: len(guesses) <= 6, and the sum left out.
loop_condition_le(gs, r) ==
    Len(gs) <= MaxGuesses /\ SumOver(r, Cols) < AllGreenSum

loop_condition_len_only(gs, r) == Len(gs) < MaxGuesses

loop_condition(gs, r) == Len(gs) < MaxGuesses /\ SumOver(r, Cols) < AllGreenSum

PlayInit ==
    /\ interactive \in BOOLEAN
    /\ dictionary = Dictionary(interactive)
    /\ wordle \in Wordles(interactive)
    /\ word_list = dictionary
    /\ prev_list = dictionary
    /\ result = [i \in Cols |-> 0]
    /\ guess = None
    /\ guess_func = None
    /\ guesses = <<>>
    /\ emojis = <<>>
    /\ pc = "while"

\* guess = guestimate(word_list, len(guesses), guess, verbose)
\* guesses.append(guess)
Guess ==
    /\ pc = "while"
    /\ loop_condition(guesses, result)
    /\ \E f \in guestimate_funcs(Len(guesses), guess) :
       \E g \in top_words(f, word_list) :
          /\ guess_func' = f
          /\ guess' = g
          /\ guesses' = Append(guesses, g)
    /\ pc' = "feedback"
    /\ UNCHANGED <<dictionary, wordle, interactive, word_list, prev_list,
                   result, emojis>>

\* guestimate on an empty word_list: most_common(1)[0] raises IndexError,
\* which nothing catches.
GuessRaises ==
    /\ pc = "while"
    /\ loop_condition(guesses, result)
    /\ guestimate(word_list, Len(guesses), guess) = {}
    /\ pc' = "IndexError"
    /\ UNCHANGED <<dictionary, wordle, interactive, word_list, prev_list,
                   guess, guess_func, result, guesses, emojis>>

\* The rest of the loop body once the result r is known.
Record(r) ==
    /\ result' = r
    /\ emojis' = Append(emojis, emojinate(r))
    /\ prev_list' = word_list
    /\ word_list' = winnow(word_list, guess, r)
    /\ pc' = "while"
    /\ UNCHANGED <<dictionary, wordle, interactive, guess, guess_func, guesses>>

\* result = test(wordle, guess)
Test ==
    /\ pc = "feedback"
    /\ ~interactive
    /\ Record(test(wordle, guess))

\* result = ask(guess, len(guesses)): any five hints out of b, y, g.
Ask ==
    /\ pc = "feedback"
    /\ interactive
    /\ \E hint \in Results : Record(hint)

\* return guesses, emojis
Return ==
    /\ pc = "while"
    /\ ~loop_condition(guesses, result)
    /\ pc' = "return"
    /\ UNCHANGED <<dictionary, wordle, interactive, word_list, prev_list,
                   guess, guess_func, result, guesses, emojis>>

Init == PlayInit
Next == Guess \/ GuessRaises \/ Test \/ Ask \/ Return
Spec == Init /\ [][Next]_vars

-----------------------------------------------------------------------------
(* test(wordle, guess) on its own: every solution and guess over Letters.  *)

TestInit ==
    /\ wordle \in Words
    /\ guess \in Words
    /\ result = [i \in Cols |-> 0]
    /\ pc = "test"
    /\ interactive = FALSE
    /\ dictionary = <<>>
    /\ word_list = <<>>
    /\ prev_list = <<>>
    /\ guess_func = None
    /\ guesses = <<>>
    /\ emojis = <<>>

TestCall ==
    /\ pc = "test"
    /\ result' = test(wordle, guess)
    /\ pc' = "tested"
    /\ UNCHANGED <<dictionary, wordle, interactive, word_list, prev_list,
                   guess, guess_func, guesses, emojis>>

SpecTest == TestInit /\ [][TestCall]_vars

-----------------------------------------------------------------------------
(* winnow(word_list, guess, result) on its own: every list of at most      *)
(* MaxCands words of the pool, every guess of the pool and every result,   *)
(* winnowed once and then once more with the same guess and result.        *)

PoolWords == <<
    <<"a","b","b","a","c">>, <<"b","a","c","b","a">>, <<"a","a","b","c","b">>,
    <<"c","b","a","a","b">>, <<"b","c","a","b","a">>, <<"a","b","c","a","b">>,
    <<"c","a","b","b","a">>
>>
PoolSize == 6
MaxCands == 2
Pool == {PoolWords[k] : k \in 1..PoolSize}
CandidateLists == UNION {[1..n -> Pool] : n \in 0..MaxCands}

WinnowInit ==
    /\ word_list \in CandidateLists
    /\ guess \in Pool
    /\ result \in Results
    /\ pc = "winnow"
    /\ dictionary = word_list
    /\ prev_list = word_list
    /\ wordle = DefaultWordle
    /\ interactive = TRUE
    /\ guess_func = None
    /\ guesses = <<>>
    /\ emojis = <<>>

WinnowCall ==
    /\ pc \in {"winnow", "winnow again"}
    /\ prev_list' = word_list
    /\ word_list' = winnow(word_list, guess, result)
    /\ pc' = IF pc = "winnow" THEN "winnow again" ELSE "winnowed twice"
    /\ UNCHANGED <<dictionary, wordle, interactive, guess, guess_func,
                   result, guesses, emojis>>

\* The winnow calls on their own together with the games of play.
SpecWinnow == (WinnowInit \/ PlayInit) /\ [][WinnowCall \/ Next]_vars

-----------------------------------------------------------------------------
(* Vocabulary of the properties.                                           *)

AllGreen(r) == \A i \in Cols : r[i] = Green

Occurrences(word, l) == Cardinality({i \in Cols : word[i] = l})

\* The columns of guess g that hold l and are coded Correct or Present.
Credited(g, r, l) ==
    Cardinality({i \in Cols : g[i] = l /\ r[i] \in {Yellow, Green}})

RECURSIVE IsSubSeq(_, _)
\* s is t with some of its entries left out, the others in t's order.
IsSubSeq(s, t) ==
    IF s = <<>> THEN TRUE
    ELSE IF t = <<>> THEN FALSE
    ELSE IF Head(s) = Head(t) THEN IsSubSeq(Tail(s), Tail(t))
    ELSE IsSubSeq(s, Tail(t))

\* The pooled occurrence count of the distinct letters of word: the letter
\* occurrences in list, over all columns, that are a letter of word.
PooledScore(word, list) ==
    Cardinality({kc \in (1..Len(list)) \X Cols :
                    \E i \in Cols : list[kc[1]][kc[2]] = word[i]})

\* The first word of list with the largest pooled score.
FirstArgmax(list) ==
    LET best(k) == \A j \in 1..Len(list) :
                      PooledScore(list[j], list) <= PooledScore(list[k], list)
    IN  list[CHOOSE k \in 1..Len(list) :
                best(k) /\ \A j \in 1..(k - 1) : ~best(j)]

\* A game of play, and the rounds it has completed.
InPlay == pc \in {"while", "feedback", "return", "IndexError"}
Rounds == Len(emojis)
\* The guess has been answered and the list winnowed with the answer.
Winnowed == pc \in {"while", "return", "IndexError"} /\ Rounds >= 1
SelfPlay == InPlay /\ ~interactive

-----------------------------------------------------------------------------
(* C1: in the result of test(T, G), the columns of G that hold a letter L  *)
(* and are coded Correct or Present are never more than the occurrences of *)
(* L in T; when T holds L once and G holds it more than once, exactly one  *)
(* of those columns is coded Correct or Present.                           *)
C1_NoOverCount ==
    pc = "tested" =>
        \A l \in Letters :
            /\ Credited(guess, result, l) <= Occurrences(wordle, l)
            /\ (Occurrences(wordle, l) = 1 /\ Occurrences(guess, l) >= 2)
                  => Credited(guess, result, l) = 1

-----------------------------------------------------------------------------
(* C2: with a known solution, after every round the word list is exactly   *)
(* the dictionary words, in dictionary order, whose test against every     *)
(* guess so far gives the feedback that was observed; a solution that is   *)
(* in the dictionary is never winnowed out.                                *)
C2_ExactlyConsistent ==
    SelfPlay /\ pc # "feedback" =>
        /\ word_list =
              SelectSeq(dictionary, LAMBDA w :
                  \A j \in 1..Rounds :
                      emojinate(test(w, guesses[j])) = emojis[j])
        /\ wordle \in RangeOf(dictionary) => wordle \in RangeOf(word_list)

C2_Witness ==
    /\ SelfPlay /\ pc = "while" /\ Rounds >= 2
    /\ wordle \in RangeOf(dictionary)
    /\ ~AllGreen(result)
    /\ Len(word_list) >= 2
    /\ Len(word_list) < Len(prev_list)

-----------------------------------------------------------------------------
(* C3: a game whose word list was winnowed to nothing never returns        *)
(* normally; it ends in an error.                                          *)
C3_ExhaustionIsAnError ==
    InPlay /\ word_list = <<>> => pc # "return"

-----------------------------------------------------------------------------
(* C4, as claimed: for a solution in a dictionary of at least 51 words,    *)
(* every game with a known solution ends within 6 rounds, with the final   *)
(* feedback all-Correct and the last guess equal to the solution.          *)
C4_Case ==
    /\ SelfPlay
    /\ Len(dictionary) >= 51
    /\ wordle \in RangeOf(dictionary)

C4_AlwaysSolved ==
    C4_Case /\ pc \in {"return", "IndexError"} =>
        /\ pc = "return"
        /\ Len(guesses) <= 6
        /\ AllGreen(result)
        /\ guesses[Len(guesses)] = wordle

(* C4, amended: every such game goes on, without an error, to its return   *)
(* after at most 6 guesses; it ends either solved, the last guess being    *)
(* the solution, or after 6 guesses of which none is the solution, the     *)
(* solution still in the word list.                                        *)
C4_ReturnsSolvedOrSpent ==
    C4_Case =>
        /\ Len(guesses) <= 6
        /\ pc # "IndexError"
        /\ wordle \in RangeOf(word_list)
        /\ pc = "return" =>
              \/ AllGreen(result) /\ guesses[Len(guesses)] = wordle
              \/ /\ Len(guesses) = 6
                 /\ wordle \notin RangeOf(guesses)
                 /\ wordle \in RangeOf(word_list)

C4_Witness ==
    /\ C4_Case /\ pc = "return"
    /\ Len(guesses) = 6
    /\ ~AllGreen(result)

-----------------------------------------------------------------------------
(* C5: play never holds more than 6 guesses, makes no guess after an       *)
(* all-Correct feedback, returns only when the last feedback is            *)
(* all-Correct or 6 guesses exist, and otherwise goes on to a further      *)
(* guess (or to the error of an empty list).                               *)
C5_StopsExactlyThen ==
    /\ [](InPlay =>
            /\ Len(guesses) <= 6
            /\ pc = "feedback" => ~AllGreen(result)
            /\ pc = "return" => (AllGreen(result) \/ Len(guesses) = 6))
    /\ [][pc = "while" =>
            IF Len(guesses) < 6 /\ ~AllGreen(result)
            THEN \/ pc' = "feedback" /\ Len(guesses') = Len(guesses) + 1
                 \/ pc' = "IndexError" /\ word_list = <<>>
            ELSE pc' = "return" /\ guesses' = guesses]_vars

C5_Witness ==
    /\ InPlay /\ pc = "return"
    /\ Len(guesses) = 6
    /\ ~AllGreen(result)
    /\ word_list # <<>>

-----------------------------------------------------------------------------
(* C6: winnowing a winnowed list again with the same guess and result      *)
(* changes nothing.                                                        *)
C6_Idempotent ==
    pc = "winnowed twice" => word_list = prev_list

C6_Witness ==
    /\ pc = "winnowed twice"
    /\ Len(dictionary) = 2
    /\ Len(word_list) = 1
    /\ ~AllGreen(result)

-----------------------------------------------------------------------------
(* C7: the list winnow returns is the list it was given with some words    *)
(* left out and the others in their order, so it is never longer; the list *)
(* of a round is a sub-sequence of the list of the round before, and of    *)
(* the dictionary.                                                         *)
C7_SubSequence ==
    /\ IsSubSeq(word_list, prev_list)
    /\ Len(word_list) <= Len(prev_list)
    /\ IsSubSeq(prev_list, dictionary)

C7_Witness ==
    /\ pc = "winnow again"
    /\ Len(prev_list) >= 2
    /\ Len(word_list) >= 1
    /\ Len(word_list) < Len(prev_list)
    /\ word_list[1] # prev_list[1]

-----------------------------------------------------------------------------
(* C8, as claimed: every guess after the first is made by common letters   *)
(* and is the first word of the word list with the largest pooled score.   *)
C8_FirstArgmax ==
    (pc = "feedback" /\ Len(guesses) >= 2) =>
        /\ guess_func = "value_by_common_letters"
        /\ guess = FirstArgmax(word_list)

(* C8, amended: every guess after the first is made by common letters and  *)
(* is a word of the word list with the largest pooled score (one of them,  *)
(* not always the first, when several words have it); only the first       *)
(* guess can come from another heuristic.                                  *)
C8_SomeArgmax ==
    pc = "feedback" =>
        /\ guess_func \in guess_funcs
        /\ Len(guesses) >= 2 =>
              /\ guess_func = "value_by_common_letters"
              /\ guess \in RangeOf(word_list)
              /\ \A w \in RangeOf(word_list) :
                    PooledScore(w, word_list) <= PooledScore(guess, word_list)

C8_Witness ==
    /\ pc = "feedback" /\ Len(guesses) >= 2
    /\ guess # FirstArgmax(word_list)
    /\ \E w \in RangeOf(word_list) :
          PooledScore(w, word_list) < PooledScore(guess, word_list)

-----------------------------------------------------------------------------
(* C9: every guess is a word of the list it was chosen from; winnowing     *)
(* with a feedback that is not all-Correct removes the guess, so the list  *)
(* gets shorter; no word is guessed twice in a game.                       *)
C9_GuessLeavesTheList ==
    InPlay =>
        /\ pc = "feedback" => guess \in RangeOf(word_list)
        /\ (Winnowed /\ ~AllGreen(result)) =>
              /\ guess \in RangeOf(prev_list)
              /\ guess \notin RangeOf(word_list)
              /\ Len(word_list) < Len(prev_list)
        /\ \A j, k \in 1..Len(guesses) : j # k => guesses[j] # guesses[k]

C9_Witness ==
    /\ InPlay /\ interactive /\ pc = "while"
    /\ Rounds >= 4
    /\ ~AllGreen(result)
    /\ word_list # <<>>

-----------------------------------------------------------------------------
(* C10: when the result codes a letter of the guess Absent in one column   *)
(* and Present in another, winnow returns the empty list.                  *)
AbsentAndPresent(g, r) ==
    \E i, j \in Cols : g[i] = g[j] /\ r[i] = Black /\ r[j] = Yellow

C10_AbsentAndPresentEmpties ==
    (Winnowed \/ pc \in {"winnow again", "winnowed twice"}) =>
        (AbsentAndPresent(guess, result) => word_list = <<>>)

C10_Witness ==
    /\ pc = "winnow again"
    /\ AbsentAndPresent(guess, result)
    /\ Len(prev_list) = 2
    /\ \E k \in 1..2 : \A i \in Cols :
          (result[i] = Green) <=> (prev_list[k][i] = guess[i])

=============================================================================
